---- MODULE Spec2Model ----
(***************************************************************************)
(* Model of the adaptive difficulty controller of src/adaptive_engine.py   *)
(* (class AdaptiveEngine).                                                 *)
(*                                                                         *)
(* The P-Score is a Python float.  It is modelled as an exact signed       *)
(* decimal: a record [neg, ip, frac] standing for                          *)
(*     (IF neg THEN -1 ELSE 1) * (ip + 0.frac[1]frac[2]...)                *)
(* with frac free of trailing zeros and zero never negative, so that two   *)
(* records are equal exactly when the numbers are.  Every score the        *)
(* engine computes is a finite decimal (integers added, products with      *)
(* 0.9), so the arithmetic below is the real-number arithmetic that the    *)
(* float operations approximate to within rounding (about 1e-15); the      *)
(* thresholds 5.0 and -3.0 are never met exactly by a decayed score, so    *)
(* the comparisons of the code and of the model agree within the bounds.   *)
(* Response times are in tenths of a second.                               *)
(***************************************************************************)
EXTENDS Integers, Sequences, FiniteSets, TLC

(***************************************************************************)
(* Bounds of the model.                                                    *)
(***************************************************************************)
\* update_performance is not called once the score carries this many
\* decimals (each call without a reset adds one decimal)
MaxFrac == 6

\* the response times a call is given: -1.0s, 2.0s, 5.0s, 5.1s
ResponseTimes == {-10, 20, 50, 51}

\* sustained runs: the calls with any outcome made first, the longest run
\* of incorrect calls, and the longest run of fluent calls without a
\* transition
MaxWarmup == 4

\* a random number is drawn as one of the steps 0..RandMax across its range
RandMax == 3

\* the difficulty labels generate_puzzle is called with
Labels == {"Easy", "Medium", "Hard", "Expert", "easy", "HARD"}
MaxFailing == 21
MaxStreak == 13

\* sustained failure: the calls with any outcome made first, the longest
\* run of fluent calls without a transition made after them, and the
\* longest run of incorrect calls without one
MaxPrelude == 2
MaxClimb == 15
MaxFalling == 8

(***************************************************************************)
(* Exact decimal arithmetic for the float operations of the engine.        *)
(***************************************************************************)
\* f without its trailing zeros
Strip(f) ==
    CHOOSE g \in {SubSeq(f, 1, n) : n \in 0..Len(f)} :
        /\ g = <<>> \/ g[Len(g)] # 0
        /\ \A i \in (Len(g) + 1)..Len(f) : f[i] = 0

Pad(f, n) == f \o [i \in 1..(n - Len(f)) |-> 0]

Max(a, b) == IF a >= b THEN a ELSE b

Dec(neg, ip, frac) ==
    LET f == Strip(frac)
    IN  [neg |-> neg /\ ~(ip = 0 /\ f = <<>>), ip |-> ip, frac |-> f]

FromInt(n) == Dec(n < 0, IF n < 0 THEN -n ELSE n, <<>>)

\* The digit operations return the carry (or borrow) out of the digits
\* i..Len(a) followed by the digits i..Len(a) of the result.  The result of
\* the lower digits is bound as a value and computed once.
RECURSIVE Carry(_, _, _)
Carry(a, b, i) ==
    IF i > Len(a) THEN <<0>>
    ELSE CHOOSE r \in {<<(a[i] + b[i] + t[1]) \div 10,
                         (a[i] + b[i] + t[1]) % 10>> \o Tail(t) :
                           t \in {Carry(a, b, i + 1)}} : TRUE

RECURSIVE Borrow(_, _, _)
Borrow(a, b, i) ==
    IF i > Len(a) THEN <<0>>
    ELSE CHOOSE r \in {<<IF a[i] - b[i] - t[1] < 0 THEN 1 ELSE 0,
                         (10 + a[i] - b[i] - t[1]) % 10>> \o Tail(t) :
                           t \in {Borrow(a, b, i + 1)}} : TRUE

RECURSIVE MulCarry(_, _, _)
MulCarry(a, d, i) ==
    IF i > Len(a) THEN <<0>>
    ELSE CHOOSE r \in {<<(a[i] * d + t[1]) \div 10,
                         (a[i] * d + t[1]) % 10>> \o Tail(t) :
                           t \in {MulCarry(a, d, i + 1)}} : TRUE

\* |x| < |y|
MagLess(x, y) ==
    \E a \in {Pad(x.frac, Max(Len(x.frac), Len(y.frac)))},
       b \in {Pad(y.frac, Max(Len(x.frac), Len(y.frac)))} :
        \/ x.ip < y.ip
        \/ /\ x.ip = y.ip
           /\ \E i \in 1..Len(a) : /\ a[i] < b[i]
                                   /\ \A j \in 1..(i - 1) : a[j] = b[j]

\* |x| + |y| with the sign neg
MagAdd(neg, x, y) ==
    CHOOSE r \in {Dec(neg, x.ip + y.ip + t[1], Tail(t)) :
                    t \in {Carry(Pad(x.frac, Max(Len(x.frac), Len(y.frac))),
                                 Pad(y.frac, Max(Len(x.frac), Len(y.frac))),
                                 1)}} : TRUE

\* |x| - |y| with the sign neg, for |x| >= |y|
MagSub(neg, x, y) ==
    CHOOSE r \in {Dec(neg, x.ip - y.ip - t[1], Tail(t)) :
                    t \in {Borrow(Pad(x.frac, Max(Len(x.frac), Len(y.frac))),
                                  Pad(y.frac, Max(Len(x.frac), Len(y.frac))),
                                  1)}} : TRUE

\* x + y
DecAdd(x, y) ==
    IF x.neg = y.neg THEN MagAdd(x.neg, x, y)
    ELSE IF MagLess(x, y) THEN MagSub(y.neg, y, x)
    ELSE MagSub(x.neg, x, y)

DecNeg(x) == Dec(~x.neg, x.ip, x.frac)

\* x - y
DecSub(x, y) == DecAdd(x, DecNeg(y))

\* x * (d / 10) for a digit d
DecMulTenths(x, d) ==
    CHOOSE r \in {Dec(x.neg, (x.ip * d + t[1]) \div 10,
                      <<(x.ip * d + t[1]) % 10>> \o Tail(t)) :
                    t \in {MulCarry(x.frac, d, 1)}} : TRUE

\* x < y, x <= y, x >= y
DecLess(x, y) == DecSub(x, y).neg
DecLeq(x, y) == ~DecLess(y, x)
DecGeq(x, y) == ~DecLess(x, y)

(***************************************************************************)
(* The engine.                                                             *)
(***************************************************************************)
VARIABLES
    p_score,                    \* self.p_score
    current_difficulty_index,   \* self.current_difficulty_index
    call,                       \* the arguments of the last update_performance
    result,                     \* the dict the last update_performance returned
    status,                     \* the dict get_status returned since the last
                                \* update_performance
    requested,                  \* the argument of the last generate_puzzle
    puzzle,                     \* what the last generate_puzzle returned or raised
    pc,                         \* the position of the caller of the engine
    streak                      \* the calls the caller has made in its position

vars == <<p_score, current_difficulty_index, call, result, status,
          requested, puzzle, pc, streak>>

\* the state of the puzzle generator's caller and of the engine's caller
generator_vars == <<requested, puzzle>>
caller_vars == <<pc, streak>>

difficulty_levels == <<"Easy", "Medium", "Hard">>

\* self.decay_factor = 0.9, in tenths
decay_factor == 9

\* the fluency limit 5.0 (seconds) of update_performance, in tenths
FluencyLimit == 50

\* P-Score >= +5 raises the difficulty, P-Score <= -3 lowers it
\* an upper threshold placed at 1
increase_threshold_At1 == FromInt(1)

increase_threshold == FromInt(5)

\* a lower threshold placed at -2
decrease_threshold_AtMinus2 == FromInt(-2)

decrease_threshold == FromInt(-3)

\* the index read by engine.current_difficulty one level too high
current_difficulty_OffByOne(index) ==
    IF index + 1 \in 0..(Len(difficulty_levels) - 1)
    THEN difficulty_levels[index + 2]
    ELSE "IndexError"

\* self.difficulty_levels[index]: a Python list counts a negative index from
\* the end and raises IndexError outside -len..len-1
current_difficulty(index) ==
    LET n == Len(difficulty_levels)
    IN  IF index \in 0..(n - 1) THEN difficulty_levels[index + 1]
        ELSE IF index \in (-n)..(-1) THEN difficulty_levels[index + n + 1]
        ELSE "IndexError"

\* the decay applied a second time
Decay_Twice(score) == DecMulTenths(DecMulTenths(score, decay_factor), decay_factor)

\* self.p_score *= self.decay_factor
Decay(score) == DecMulTenths(score, decay_factor)

\* the fluent reward given only for a time in 0.0 .. 5.0
Delta_NonNegativeFluent(is_correct, response_time) ==
    IF is_correct
    THEN IF 0 <= response_time /\ response_time <= FluencyLimit THEN 2 ELSE 1
    ELSE -3

\* the fluent reward given to every correct answer
Delta_AlwaysFluent(is_correct, response_time) ==
    IF is_correct THEN 2 ELSE -3

\* the rewards for a fluent and for a slow correct answer swapped
Delta_Swapped(is_correct, response_time) ==
    IF is_correct
    THEN IF response_time <= FluencyLimit THEN 1 ELSE 2
    ELSE -3

\* a penalty of 4 for an incorrect answer
Delta_Penalty4(is_correct, response_time) ==
    IF is_correct
    THEN IF response_time <= FluencyLimit THEN 2 ELSE 1
    ELSE -4

\* a penalty of 2 for an incorrect answer
Delta_Penalty2(is_correct, response_time) ==
    IF is_correct
    THEN IF response_time <= FluencyLimit THEN 2 ELSE 1
    ELSE -2

\* a reward of 1 for every correct answer
Delta_NoFluency(is_correct, response_time) ==
    IF is_correct THEN 1 ELSE -3

\* the reward or penalty added to the score
Delta(is_correct, response_time) ==
    IF is_correct
    THEN IF response_time <= FluencyLimit THEN 2 ELSE 1
    ELSE -3

Rationale(is_correct, response_time) ==
    IF is_correct
    THEN IF response_time <= FluencyLimit THEN "High Fluency" ELSE "Accuracy"
    ELSE "Inaccurate"

\* the check without the guards on the first and last level
check_difficulty_transition_Unguarded(score, index) ==
    IF DecGeq(score, increase_threshold)
    THEN [p_score |-> FromInt(0), index |-> index + 1, transition_occurred |-> TRUE]
    ELSE IF DecLeq(score, decrease_threshold)
    THEN [p_score |-> FromInt(0), index |-> index - 1, transition_occurred |-> TRUE]
    ELSE [p_score |-> score, index |-> index, transition_occurred |-> FALSE]

\* the check with the score clamped to 0.0 on the first and last level
check_difficulty_transition_Clamped(score, index) ==
    IF DecGeq(score, increase_threshold)
    THEN [p_score |-> FromInt(0),
          index |-> IF index < Len(difficulty_levels) - 1 THEN index + 1 ELSE index,
          transition_occurred |-> index < Len(difficulty_levels) - 1]
    ELSE IF DecLeq(score, decrease_threshold)
    THEN [p_score |-> FromInt(0),
          index |-> IF index > 0 THEN index - 1 ELSE index,
          transition_occurred |-> index > 0]
    ELSE [p_score |-> score, index |-> index, transition_occurred |-> FALSE]

\* the check reporting a transition whenever a threshold is crossed, also on
\* the first and last level where the index stays
check_difficulty_transition_ReportsAtBoundary(score, index) ==
    IF DecGeq(score, increase_threshold)
    THEN IF index < Len(difficulty_levels) - 1
         THEN [p_score |-> FromInt(0), index |-> index + 1, transition_occurred |-> TRUE]
         ELSE [p_score |-> score, index |-> index, transition_occurred |-> TRUE]
    ELSE IF DecLeq(score, decrease_threshold)
    THEN IF index > 0
         THEN [p_score |-> FromInt(0), index |-> index - 1, transition_occurred |-> TRUE]
         ELSE [p_score |-> score, index |-> index, transition_occurred |-> TRUE]
    ELSE [p_score |-> score, index |-> index, transition_occurred |-> FALSE]

\* the check without the branch that decreases the difficulty
check_difficulty_transition_NoDecrease(score, index) ==
    IF DecGeq(score, increase_threshold) /\ index < Len(difficulty_levels) - 1
    THEN [p_score |-> FromInt(0), index |-> index + 1, transition_occurred |-> TRUE]
    ELSE [p_score |-> score, index |-> index, transition_occurred |-> FALSE]

\* the check without the reset of the score
check_difficulty_transition_NoReset(score, index) ==
    IF DecGeq(score, increase_threshold) /\ index < Len(difficulty_levels) - 1
    THEN [p_score |-> score, index |-> index + 1, transition_occurred |-> TRUE]
    ELSE IF DecLeq(score, decrease_threshold) /\ index > 0
    THEN [p_score |-> score, index |-> index - 1, transition_occurred |-> TRUE]
    ELSE [p_score |-> score, index |-> index, transition_occurred |-> FALSE]

\* the state and the return value of _check_difficulty_transition, called
\* with self.p_score = score and self.current_difficulty_index = index
check_difficulty_transition(score, index) ==
    IF DecGeq(score, increase_threshold) /\ index < Len(difficulty_levels) - 1
    THEN [p_score |-> FromInt(0), index |-> index + 1, transition_occurred |-> TRUE]
    ELSE IF DecLeq(score, decrease_threshold) /\ index > 0
    THEN [p_score |-> FromInt(0), index |-> index - 1, transition_occurred |-> TRUE]
    ELSE [p_score |-> score, index |-> index, transition_occurred |-> FALSE]

\* the plain difference of the new and the old score
ScoreChange_Plain(new_score, old_score) == DecSub(new_score, old_score)

\* the decay applied to the difference of the new and the old score
ScoreChange_DecayBoth(new_score, old_score) ==
    Decay(DecSub(new_score, old_score))

\* 'score_change': self.p_score - old_score * self.decay_factor
ScoreChange(new_score, old_score) ==
    CHOOSE change \in {DecSub(new_score, decayed_old) :
                           decayed_old \in {Decay(old_score)}} : TRUE

NoCall == [is_correct |-> FALSE, response_time |-> 0, made |-> FALSE]

NoResult ==
    [old_score |-> FromInt(0), new_score |-> FromInt(0),
     score_change |-> FromInt(0),
     old_difficulty |-> "Easy", new_difficulty |-> "Easy",
     transition_occurred |-> FALSE, rationale |-> "none"]

NoStatus ==
    [called |-> FALSE, p_score |-> FromInt(0), difficulty |-> "none",
     difficulty_index |-> 0,
     increase_threshold |-> FromInt(0), decrease_threshold |-> FromInt(0)]

NoPuzzle ==
    [kind |-> "none", question |-> [op |-> "none", a |-> 0, b |-> 0, c |-> 0],
     answer |-> 0, difficulty |-> "none"]

\* a controller constructed at Medium with the score at the upper threshold
Constructed_AtMedium ==
    /\ p_score = FromInt(5)
    /\ current_difficulty_index = 1
    /\ call = NoCall
    /\ result = NoResult
    /\ status = NoStatus
    /\ requested = "none"
    /\ puzzle = NoPuzzle
    /\ streak = 0

\* AdaptiveEngine() and PuzzleGenerator(), before any call
Constructed ==
    /\ p_score = FromInt(0)
    /\ current_difficulty_index = 0
    /\ call = NoCall
    /\ result = NoResult
    /\ status = NoStatus
    /\ requested = "none"
    /\ puzzle = NoPuzzle
    /\ streak = 0

Init ==
    /\ Constructed
    /\ pc = "calls"

\* (the intermediate scores are bound as values, one after the other, as
\* the statements of the method compute them)
update_performance(is_correct, response_time) ==
    /\ status' = NoStatus
    /\ \E old_score \in {p_score},
          old_difficulty \in {current_difficulty(current_difficulty_index)},
          added \in {DecAdd(p_score, FromInt(Delta(is_correct, response_time)))} :
       \E decayed \in {Decay(added)} :
       \E t \in {check_difficulty_transition(decayed, current_difficulty_index)} :
           /\ p_score' = t.p_score
           /\ current_difficulty_index' = t.index
           /\ call' = [is_correct |-> is_correct,
                       response_time |-> response_time, made |-> TRUE]
           /\ result' =
                [old_score |-> old_score,
                 new_score |-> t.p_score,
                 score_change |-> ScoreChange(t.p_score, old_score),
                 old_difficulty |-> old_difficulty,
                 new_difficulty |-> current_difficulty(t.index),
                 transition_occurred |-> t.transition_occurred,
                 rationale |-> Rationale(is_correct, response_time)]

\* round(score, 2): the nearest number with two decimals, a tie going to
\* the even last digit
Round2(score) ==
    IF Len(score.frac) <= 2 THEN score
    ELSE LET kept == SubSeq(score.frac, 1, 2)
             rest == SubSeq(score.frac, 3, Len(score.frac))
         IN  IF \/ rest[1] > 5
                \/ rest[1] = 5 /\ (Len(rest) > 1 \/ kept[2] % 2 = 1)
             THEN MagAdd(score.neg, Dec(score.neg, score.ip, kept),
                         Dec(FALSE, 0, <<0, 1>>))
             ELSE Dec(score.neg, score.ip, kept)

\* get_status with the rounded score written back to the engine
get_status_StoresRounded ==
    /\ status' =
         [called |-> TRUE,
          p_score |-> Round2(p_score),
          difficulty |-> current_difficulty(current_difficulty_index),
          difficulty_index |-> current_difficulty_index,
          increase_threshold |-> FromInt(5),
          decrease_threshold |-> FromInt(-3)]
    /\ p_score' = Round2(p_score)
    /\ UNCHANGED <<current_difficulty_index, call, result>>

get_status ==
    /\ status' =
         [called |-> TRUE,
          p_score |-> Round2(p_score),
          difficulty |-> current_difficulty(current_difficulty_index),
          difficulty_index |-> current_difficulty_index,
          increase_threshold |-> FromInt(5),
          decrease_threshold |-> FromInt(-3)]
    /\ UNCHANGED <<p_score, current_difficulty_index, call, result>>

\* update_performance called with any outcome
Next ==
    \E is_correct \in BOOLEAN, response_time \in ResponseTimes :
        /\ Len(p_score.frac) < MaxFrac
        /\ update_performance(is_correct, response_time)
        /\ UNCHANGED <<generator_vars, caller_vars>>

Spec == Init /\ [][Next]_vars

\* get_status called between the calls of update_performance
GetStatusCall ==
    /\ get_status
    /\ UNCHANGED <<generator_vars, caller_vars>>

StatusNext == Next \/ GetStatusCall

StatusSpec == Init /\ [][StatusNext]_vars

(***************************************************************************)
(* The puzzle generator of src/puzzle_generator.py.  The random choices    *)
(* are arguments: choice and operation index random.choice, u1..u3 are the *)
(* draws of the random.randint calls in the order the code makes them.     *)
(* choice is the draw of a three-way random.choice (the operation of a     *)
(* medium puzzle, the type of a hard one), operation of a two-way one.     *)
(***************************************************************************)
\* random.randint(lo, hi) for the draw u
RandInt(lo, hi, u) == lo + (u * (hi - lo)) \div RandMax

\* the keys of self.operations
operations == {"Easy", "Medium", "Hard"}

Puzzle(op, a, b, c, answer, difficulty) ==
    [kind |-> "puzzle", question |-> [op |-> op, a |-> a, b |-> b, c |-> c],
     answer |-> answer, difficulty |-> difficulty]

\* raise ValueError(f"Unknown difficulty: {difficulty}")
ValueError ==
    [kind |-> "ValueError", question |-> [op |-> "none", a |-> 0, b |-> 0, c |-> 0],
     answer |-> 0, difficulty |-> "none"]

generate_easy_puzzle(operation, u1, u2) ==
    IF operation = 0
    THEN LET a == RandInt(1, 9, u1)
             b == RandInt(1, 9, u2)
         IN  Puzzle("+", a, b, 0, a + b, "Easy")
    ELSE LET a == RandInt(5, 9, u1)
             b == RandInt(1, a, u2)
         IN  Puzzle("-", a, b, 0, a - b, "Easy")

generate_medium_puzzle(operation, u1, u2) ==
    IF operation = 0
    THEN LET a == RandInt(10, 50, u1)
             b == RandInt(10, 50, u2)
         IN  Puzzle("+", a, b, 0, a + b, "Medium")
    ELSE IF operation = 1
    THEN LET a == RandInt(20, 99, u1)
             b == RandInt(10, a, u2)
         IN  Puzzle("-", a, b, 0, a - b, "Medium")
    ELSE LET a == RandInt(2, 9, u1)
             b == RandInt(2, 12, u2)
         IN  Puzzle("*", a, b, 0, a * b, "Medium")

\* choice indexes ['multi_step', 'large_numbers', 'division'], operation
\* indexes ['+', '-'] of the large numbers
generate_hard_puzzle(choice, operation, u1, u2, u3) ==
    IF choice = 0
    THEN LET a == RandInt(5, 15, u1)
             b == RandInt(5, 15, u2)
             c == RandInt(2, 8, u3)
         IN  Puzzle("(+)*", a, b, c, (a + b) * c, "Hard")
    ELSE IF choice = 1
    THEN IF operation = 0
         THEN LET a == RandInt(100, 500, u1)
                  b == RandInt(100, 500, u2)
              IN  Puzzle("+", a, b, 0, a + b, "Hard")
         ELSE LET a == RandInt(200, 999, u1)
                  b == RandInt(100, a, u2)
              IN  Puzzle("-", a, b, 0, a - b, "Hard")
    ELSE LET quotient == RandInt(5, 20, u1)
             divisor == RandInt(3, 12, u2)
             dividend == quotient * divisor
         IN  Puzzle("/", dividend, divisor, 0, quotient, "Hard")

\* an unknown difficulty answered with an easy puzzle
generate_puzzle_DefaultsToEasy(difficulty, choice, operation, u1, u2, u3) ==
    /\ requested' = difficulty
    /\ puzzle' =
         IF difficulty = "Medium"
         THEN generate_medium_puzzle(choice, u1, u2)
         ELSE IF difficulty = "Hard"
         THEN generate_hard_puzzle(choice, operation, u1, u2, u3)
         ELSE generate_easy_puzzle(operation, u1, u2)

generate_puzzle(difficulty, choice, operation, u1, u2, u3) ==
    /\ requested' = difficulty
    /\ puzzle' =
         IF difficulty \notin operations
         THEN ValueError
         ELSE IF difficulty = "Easy"
         THEN generate_easy_puzzle(operation, u1, u2)
         ELSE IF difficulty = "Medium"
         THEN generate_medium_puzzle(choice, u1, u2)
         ELSE generate_hard_puzzle(choice, operation, u1, u2, u3)

\* generate_puzzle called with any label
PuzzleInit ==
    /\ Constructed
    /\ pc = "puzzles"

PuzzleNext ==
    \E difficulty \in Labels, choice \in 0..2, operation \in 0..1,
       u1 \in 0..RandMax, u2 \in 0..RandMax, u3 \in 0..RandMax :
        /\ generate_puzzle(difficulty, choice, operation, u1, u2, u3)
        /\ UNCHANGED <<p_score, current_difficulty_index, call, result, status,
                       caller_vars>>

PuzzleSpec == PuzzleInit /\ [][PuzzleNext]_vars

(***************************************************************************)
(* The session loop of run_math_adventures_session: each turn generates a  *)
(* puzzle for the engine's current difficulty, simulates the response,     *)
(* updates the engine and reads its status.                                *)
(***************************************************************************)
\* the outcomes simulate_user_response can return for a difficulty: the
\* base time (seconds) and the factor (tenths) at the ends of their ranges
simulate_user_response(difficulty) ==
    LET base_time == IF difficulty = "Easy" THEN {2, 6}
                     ELSE IF difficulty = "Medium" THEN {4, 10}
                     ELSE {6, 15}
    IN  {[is_correct |-> TRUE, response_time |-> b * f] :
             b \in base_time, f \in {7, 10}}
        \cup {[is_correct |-> FALSE, response_time |-> b * f] :
                  b \in base_time, f \in {10, 14}}

SessionInit ==
    /\ Constructed
    /\ pc = "generate"

SessionGenerate ==
    /\ pc = "generate"
    /\ Len(p_score.frac) < MaxFrac
    /\ \E choice \in 0..2, operation \in 0..1, u1 \in {0, RandMax},
          u2 \in {0, RandMax}, u3 \in {0, RandMax} :
           generate_puzzle(current_difficulty(current_difficulty_index),
                           choice, operation, u1, u2, u3)
    /\ pc' = "respond"
    /\ UNCHANGED <<p_score, current_difficulty_index, call, result, status, streak>>

SessionRespond ==
    /\ pc = "respond"
    /\ puzzle.kind = "puzzle"
    /\ \E response \in simulate_user_response(current_difficulty(current_difficulty_index)) :
           update_performance(response.is_correct, response.response_time)
    /\ pc' = "status"
    /\ UNCHANGED <<generator_vars, streak>>

SessionStatus ==
    /\ pc = "status"
    /\ get_status
    /\ pc' = "generate"
    /\ UNCHANGED <<generator_vars, streak>>

SessionNext == SessionGenerate \/ SessionRespond \/ SessionStatus

SessionSpec == SessionInit /\ [][SessionNext]_vars

(***************************************************************************)
(* Sustained performance: a caller that makes a few calls with any         *)
(* outcome, or a run of incorrect calls, and from then on reports only     *)
(* correct answers within the fluency limit.  streak counts the calls of   *)
(* the current run; in the fluent run it counts the calls since the last   *)
(* transition, the call that fired it included.                            *)
(***************************************************************************)
SustainedInit ==
    /\ Constructed
    /\ pc = "warmup"

WarmupCall ==
    /\ pc = "warmup"
    /\ streak < MaxWarmup
    /\ \E is_correct \in BOOLEAN, response_time \in ResponseTimes :
          update_performance(is_correct, response_time)
    /\ pc' = "warmup"
    /\ streak' = streak + 1
    /\ UNCHANGED generator_vars

FailingCall ==
    /\ \/ pc = "warmup" /\ streak = 0
       \/ pc = "failing" /\ streak < MaxFailing
    /\ \E response_time \in ResponseTimes :
          update_performance(FALSE, response_time)
    /\ pc' = "failing"
    /\ streak' = IF pc = "failing" THEN streak + 1 ELSE 1
    /\ UNCHANGED generator_vars

FluentCall ==
    /\ (pc = "fluent" /\ ~result.transition_occurred) => streak < MaxStreak
    /\ \E response_time \in {t \in ResponseTimes : t <= FluencyLimit} :
          update_performance(TRUE, response_time)
    /\ pc' = "fluent"
    /\ streak' = IF pc = "fluent" /\ ~result.transition_occurred
                 THEN streak + 1 ELSE 1
    /\ UNCHANGED generator_vars

SustainedNext == WarmupCall \/ FailingCall \/ FluentCall

\* the premise of sustained performance: the fluent calls keep coming
SustainedSpec ==
    SustainedInit /\ [][SustainedNext]_vars /\ WF_vars(FluentCall)

(***************************************************************************)
(* Sustained failure: a caller that makes a few calls with any outcome,    *)
(* then a run of fluent calls, and from some call on reports only          *)
(* incorrect answers.  In the fluent and in the incorrect run streak       *)
(* counts the calls since the last transition, the call that fired it      *)
(* included.                                                               *)
(***************************************************************************)
FallingInit ==
    /\ Constructed
    /\ pc = "prelude"

PreludeCall ==
    /\ pc = "prelude"
    /\ streak < MaxPrelude
    /\ \E is_correct \in BOOLEAN, response_time \in ResponseTimes :
          update_performance(is_correct, response_time)
    /\ pc' = "prelude"
    /\ streak' = streak + 1
    /\ UNCHANGED generator_vars

ClimbCall ==
    /\ pc \in {"prelude", "climb"}
    /\ (pc = "climb" /\ ~result.transition_occurred) => streak < MaxClimb
    /\ \E response_time \in {t \in ResponseTimes : t <= FluencyLimit} :
          update_performance(TRUE, response_time)
    /\ pc' = "climb"
    /\ streak' = IF pc = "climb" /\ ~result.transition_occurred
                 THEN streak + 1 ELSE 1
    /\ UNCHANGED generator_vars

IncorrectCall ==
    /\ pc \in {"prelude", "climb", "falling"}
    /\ (pc = "falling" /\ ~result.transition_occurred) => streak < MaxFalling
    /\ \E response_time \in ResponseTimes :
          update_performance(FALSE, response_time)
    /\ pc' = "falling"
    /\ streak' = IF pc = "falling" /\ ~result.transition_occurred
                 THEN streak + 1 ELSE 1
    /\ UNCHANGED generator_vars

FallingNext == PreludeCall \/ ClimbCall \/ IncorrectCall

\* the premise of sustained failure: the incorrect calls keep coming
FallingSpec ==
    FallingInit /\ [][FallingNext]_vars /\ WF_vars(IncorrectCall)

(***************************************************************************)
(* Properties of the engine.                                               *)
(***************************************************************************)
\* the post-decay score of a call made in the current state with the
\* reward or penalty delta: (p_score + delta) * 0.9
PostDecay(delta) == DecMulTenths(DecAdd(p_score, FromInt(delta)), 9)

\* a step is a call of update_performance; call' holds its arguments
FastCorrect(c) == c.is_correct /\ c.response_time <= 50
SlowCorrect(c) == c.is_correct /\ c.response_time > 50
Incorrect(c) == ~c.is_correct

\* the reward or penalty of the call c, as the claims state it
ClaimedDelta(c) ==
    IF FastCorrect(c) THEN 2 ELSE IF SlowCorrect(c) THEN 1 ELSE -3

\* C1: after any sequence of update_performance calls the difficulty index
\* is 0, 1 or 2: it never advances past Hard and never regresses past Easy.
C1_IndexInRange == current_difficulty_index \in {0, 1, 2}

\* a call at Hard whose post-decay score is at least 5.0 has been made
C1_Witness ==
    /\ call.made
    /\ result.old_difficulty = "Hard"
    /\ current_difficulty_index = 2
    /\ DecGeq(p_score, FromInt(5))

\* C2: a call that reports transition_occurred = true leaves the stored
\* score, and the returned new_score, at exactly 0.0.
C2_ResetOnTransition ==
    result.transition_occurred =>
        /\ p_score = [neg |-> FALSE, ip |-> 0, frac |-> <<>>]
        /\ result.new_score = [neg |-> FALSE, ip |-> 0, frac |-> <<>>]

\* a call has fired a transition from a score that was not 0.0
C2_Witness ==
    /\ call.made
    /\ result.transition_occurred
    /\ result.old_score # FromInt(0)

\* C3: in a call in which no transition fires the new score is
\* (old score + delta) * 0.9 with delta = +2 for a correct answer within
\* 5.0 s, +1 for a correct answer after more than 5.0 s and -3 for an
\* incorrect answer whatever the time; the decay is applied once.
C3_ScoreUpdate ==
    [][~result'.transition_occurred =>
         /\ FastCorrect(call') => p_score' = PostDecay(2)
         /\ SlowCorrect(call') => p_score' = PostDecay(1)
         /\ Incorrect(call') => p_score' = PostDecay(-3)
         /\ result'.new_score = p_score'
         /\ result'.old_score = p_score]_vars

\* a slow correct answer has been scored without a transition, from a
\* score that was not 0.0
C3_Witness ==
    /\ call.made
    /\ SlowCorrect(call)
    /\ ~result.transition_occurred
    /\ result.old_score # FromInt(0)
    /\ p_score = DecMulTenths(DecAdd(result.old_score, FromInt(1)), 9)

\* C4: with s the post-decay score, the index goes up by one exactly when
\* s >= 5.0 and the level is not Hard, down by one exactly when s <= -3.0
\* and the level is not Easy; in every other case the index is unchanged,
\* the score stays s and transition_occurred is false.
C4_TransitionRule ==
    [][LET s == PostDecay(ClaimedDelta(call'))
           up == DecGeq(s, FromInt(5)) /\ current_difficulty_index # 2
           down == DecLeq(s, FromInt(-3)) /\ current_difficulty_index # 0
       IN  /\ (current_difficulty_index' = current_difficulty_index + 1) <=> up
           /\ (current_difficulty_index' = current_difficulty_index - 1) <=> down
           /\ ~up /\ ~down =>
                /\ current_difficulty_index' = current_difficulty_index
                /\ p_score' = s
                /\ ~result'.transition_occurred]_vars

\* a call at Medium has regressed the level to Easy
C4_Witness ==
    /\ call.made
    /\ result.transition_occurred
    /\ result.old_difficulty = "Medium"
    /\ current_difficulty_index = 0
\* C5: from score 0.0 below Hard, consecutive correct calls within 5.0 s
\* give the scores 1.8, 3.42 and 4.878 without a transition, and the
\* fourth call advances the level by one (Easy becomes Medium) and resets
\* the score to 0.0.
C5_FourFastCorrect ==
    [][(FastCorrect(call') /\ current_difficulty_index < 2) =>
         /\ p_score = FromInt(0) =>
              /\ p_score' = [neg |-> FALSE, ip |-> 1, frac |-> <<8>>]
              /\ ~result'.transition_occurred
              /\ current_difficulty_index' = current_difficulty_index
         /\ p_score = [neg |-> FALSE, ip |-> 1, frac |-> <<8>>] =>
              /\ p_score' = [neg |-> FALSE, ip |-> 3, frac |-> <<4, 2>>]
              /\ ~result'.transition_occurred
              /\ current_difficulty_index' = current_difficulty_index
         /\ p_score = [neg |-> FALSE, ip |-> 3, frac |-> <<4, 2>>] =>
              /\ p_score' = [neg |-> FALSE, ip |-> 4, frac |-> <<8, 7, 8>>]
              /\ ~result'.transition_occurred
              /\ current_difficulty_index' = current_difficulty_index
         /\ p_score = [neg |-> FALSE, ip |-> 4, frac |-> <<8, 7, 8>>] =>
              /\ PostDecay(2) = [neg |-> FALSE, ip |-> 6, frac |-> <<1, 9, 0, 2>>]
              /\ result'.transition_occurred
              /\ current_difficulty_index' = current_difficulty_index + 1
              /\ (result'.old_difficulty = "Easy" => result'.new_difficulty = "Medium")
              /\ p_score' = FromInt(0)]_vars

\* the fourth fast correct call, made at Easy with score 4.878, has moved
\* the level to Medium
C5_Witness ==
    /\ FastCorrect(call)
    /\ result.old_score = [neg |-> FALSE, ip |-> 4, frac |-> <<8, 7, 8>>]
    /\ result.old_difficulty = "Easy"
    /\ result.new_difficulty = "Medium"
    /\ result.transition_occurred
    /\ p_score = FromInt(0)

\* C6: from score 0.0 above Easy, a first incorrect call gives -2.7 and no
\* transition, and the second consecutive incorrect call (post-decay -5.13)
\* regresses the level by one (Medium becomes Easy) and resets the score
\* to 0.0.
C6_TwoIncorrect ==
    [][(Incorrect(call') /\ current_difficulty_index > 0) =>
         /\ p_score = FromInt(0) =>
              /\ p_score' = [neg |-> TRUE, ip |-> 2, frac |-> <<7>>]
              /\ ~result'.transition_occurred
              /\ current_difficulty_index' = current_difficulty_index
         /\ p_score = [neg |-> TRUE, ip |-> 2, frac |-> <<7>>] =>
              /\ PostDecay(-3) = [neg |-> TRUE, ip |-> 5, frac |-> <<1, 3>>]
              /\ result'.transition_occurred
              /\ current_difficulty_index' = current_difficulty_index - 1
              /\ (result'.old_difficulty = "Medium" => result'.new_difficulty = "Easy")
              /\ p_score' = FromInt(0)]_vars

\* the second incorrect call, made at Medium with score -2.7, has moved the
\* level to Easy
C6_Witness ==
    /\ Incorrect(call)
    /\ call.made
    /\ result.old_score = [neg |-> TRUE, ip |-> 2, frac |-> <<7>>]
    /\ result.old_difficulty = "Medium"
    /\ result.new_difficulty = "Easy"
    /\ result.transition_occurred
    /\ p_score = FromInt(0)

\* C7: at Hard with a post-decay score >= 5.0, and at Easy with a
\* post-decay score <= -3.0, the call leaves the index unchanged, keeps the
\* post-decay score (no reset) and reports transition_occurred = false.
C7_NoResetAtBoundary ==
    [][LET s == PostDecay(ClaimedDelta(call'))
       IN  (\/ current_difficulty_index = 2 /\ DecGeq(s, FromInt(5))
            \/ current_difficulty_index = 0 /\ DecLeq(s, FromInt(-3))) =>
               /\ current_difficulty_index' = current_difficulty_index
               /\ p_score' = s
               /\ ~result'.transition_occurred]_vars

\* the stored score has stayed at or above 5.0 across a call at Hard
C7_Witness ==
    /\ call.made
    /\ current_difficulty_index = 2
    /\ result.old_difficulty = "Hard"
    /\ DecGeq(result.old_score, FromInt(5))
    /\ DecGeq(p_score, FromInt(5))
    /\ ~result.transition_occurred
\* C8 (as stated): a correct call with a negative response time is treated
\* as slow: rationale Accuracy and delta +1.
C8_NegativeTimeIsSlow ==
    (call.made /\ call.is_correct /\ call.response_time < 0) =>
        /\ result.rationale = "Accuracy"
        /\ ~result.transition_occurred =>
             result.new_score = DecMulTenths(DecAdd(result.old_score, FromInt(1)), 9)

\* C8 (amended): a correct call with a negative response time passes the
\* fluency test response_time <= 5.0: rationale High Fluency and delta +2;
\* the call returns a result with a difficulty label of the engine.
C8_NegativeTimeIsFluent ==
    (call.made /\ call.is_correct /\ call.response_time < 0) =>
        /\ result.rationale = "High Fluency"
        /\ ~result.transition_occurred =>
             result.new_score = DecMulTenths(DecAdd(result.old_score, FromInt(2)), 9)
        /\ result.transition_occurred =>
             DecGeq(DecMulTenths(DecAdd(result.old_score, FromInt(2)), 9), FromInt(5))
        /\ result.new_difficulty \in {"Easy", "Medium", "Hard"}

\* a correct call with a negative response time has been scored from a
\* score that was not 0.0
C8_Witness ==
    /\ call.made
    /\ call.is_correct
    /\ call.response_time < 0
    /\ result.old_score # FromInt(0)
    /\ ~result.transition_occurred

\* C9 (as stated): in every call, also one that fires a transition,
\* score_change is delta * 0.9.
C9_ScoreChangeIsDelta ==
    call.made =>
        result.score_change = DecMulTenths(FromInt(ClaimedDelta(call)), 9)

\* C9 (amended): in a call in which no transition fires score_change is
\* delta * 0.9; in a call that fires a transition the score is reset first
\* and score_change is -(old_score * 0.9).
C9_ScoreChangeByCase ==
    call.made =>
        IF result.transition_occurred
        THEN result.score_change = DecNeg(DecMulTenths(result.old_score, 9))
        ELSE result.score_change = DecMulTenths(FromInt(ClaimedDelta(call)), 9)

\* a call without a transition has been made from a score that was not 0.0
C9_Witness ==
    /\ call.made
    /\ ~result.transition_occurred
    /\ result.old_score # FromInt(0)
    /\ result.score_change = DecMulTenths(FromInt(ClaimedDelta(call)), 9)

\* C10: in every call score_change is new_score - old_score * 0.9, with
\* old_score the stored score before the call and new_score the stored
\* score after it (after any reset).
C10_ScoreChangeFormula ==
    [][/\ result'.old_score = p_score
       /\ result'.new_score = p_score'
       /\ result'.score_change = DecSub(p_score', DecMulTenths(p_score, 9))]_vars

\* a call has returned a score_change that is not new_score - old_score
C10_Witness ==
    /\ call.made
    /\ result.score_change = DecSub(result.new_score, DecMulTenths(result.old_score, 9))
    /\ result.score_change # DecSub(result.new_score, result.old_score)
\* C11: in every reachable state the stored score lies strictly between the
\* fixed points of the update rule: -27 < p_score < 18, also at Hard and at
\* Easy where the score is not reset.
C11_ScoreBounded ==
    /\ DecLess(FromInt(-27), p_score)
    /\ DecLess(p_score, FromInt(18))

\* a run of incorrect calls at Easy has taken the score below -24
C11_Witness ==
    /\ pc = "failing"
    /\ current_difficulty_index = 0
    /\ DecLess(p_score, FromInt(-24))
\* C20: once every outcome is correct within 5.0 s, the difficulty
\* eventually becomes Hard and then stays Hard, and below Hard no run of
\* such calls is longer than 12 without an advance: the 12th call at the
\* latest fires the transition.
C20_SustainedFluencyClimbs ==
    /\ [](pc = "fluent" => <>(current_difficulty_index = 2))
    /\ [][(pc' = "fluent" /\ current_difficulty_index = 2) =>
              current_difficulty_index' = 2]_vars
    /\ []((pc = "fluent" /\ result.old_difficulty # "Hard") =>
              /\ streak <= 12
              /\ streak = 12 =>
                   /\ result.transition_occurred
                   /\ current_difficulty(current_difficulty_index)
                          # result.old_difficulty)

\* an advance from Easy has taken 12 consecutive fluent calls
C20_Witness ==
    /\ pc = "fluent"
    /\ streak = 12
    /\ result.transition_occurred
    /\ result.old_difficulty = "Easy"
    /\ current_difficulty_index = 1
\* C12: a newly constructed controller, before any update_performance
\* call, is in state (Easy, 0.0): p_score = 0.0, index 0, difficulty "Easy".
C12_StartsEasyAtZero ==
    ~call.made =>
        /\ p_score = [neg |-> FALSE, ip |-> 0, frac |-> <<>>]
        /\ current_difficulty_index = 0
        /\ current_difficulty(current_difficulty_index) = "Easy"

\* the controller has been constructed and not yet called
C12_Witness ==
    /\ ~call.made
    /\ result = NoResult
    /\ status = NoStatus
\* C13: get_status is a pure read.  A call of it leaves the stored score
\* (at full precision), the index and the last update's record unchanged;
\* it reports the stored difficulty and index, the thresholds 5.0 and -3.0
\* and the score rounded to two decimals; and the update_performance that
\* follows acts on the stored score as the transition rule says, whether
\* or not get_status was called before it.
C13_GetStatusPureRead ==
    [][/\ (status'.called /\ status' # status) =>
            /\ p_score' = p_score
            /\ current_difficulty_index' = current_difficulty_index
            /\ call' = call /\ result' = result
            /\ status'.difficulty_index = current_difficulty_index
            /\ status'.difficulty =
                   difficulty_levels[current_difficulty_index + 1]
            /\ status'.increase_threshold = FromInt(5)
            /\ status'.decrease_threshold = FromInt(-3)
            /\ Len(status'.p_score.frac) <= 2
            /\ DecLeq(DecSub(status'.p_score, p_score),
                      [neg |-> FALSE, ip |-> 0, frac |-> <<0, 0, 5>>])
            /\ DecGeq(DecSub(status'.p_score, p_score),
                      [neg |-> TRUE, ip |-> 0, frac |-> <<0, 0, 5>>])
       /\ ~status'.called =>
            LET s == PostDecay(ClaimedDelta(call'))
                up == DecGeq(s, FromInt(5)) /\ current_difficulty_index # 2
                down == DecLeq(s, FromInt(-3)) /\ current_difficulty_index # 0
            IN  /\ p_score' = IF up \/ down THEN FromInt(0) ELSE s
                /\ current_difficulty_index' =
                       current_difficulty_index
                           + (IF up THEN 1 ELSE IF down THEN -1 ELSE 0)
                /\ result'.old_score = p_score]_vars

\* get_status has returned a rounded copy of a score that is stored with
\* more than two decimals
C13_Witness ==
    /\ status.called
    /\ Len(p_score.frac) > 2
    /\ status.p_score # p_score
    /\ status.difficulty = "Hard"
\* C14: generate_puzzle called with a label outside {"Easy", "Medium",
\* "Hard"} fails with the invalid-difficulty error and returns no puzzle;
\* called with a label of that set it returns a puzzle and does not fail.
C14_UnknownDifficultyFails ==
    requested # "none" =>
        /\ requested \notin {"Easy", "Medium", "Hard"} =>
               puzzle.kind = "ValueError"
        /\ requested \in {"Easy", "Medium", "Hard"} =>
               /\ puzzle.kind = "puzzle"
               /\ puzzle.difficulty = requested

\* generate_puzzle has been called with the label "Expert"
C14_Witness ==
    /\ requested = "Expert"
    /\ puzzle.kind = "ValueError"
\* C15: in a session run the label passed to generate_puzzle is always one
\* of "Easy", "Medium", "Hard", so generate_puzzle never fails: whenever a
\* puzzle has been requested the label is the engine's current level and a
\* puzzle of that level came back.
C15_SessionLabelsValid ==
    /\ requested \in {"none", "Easy", "Medium", "Hard"}
    /\ puzzle.kind # "ValueError"
    /\ current_difficulty_index \in 0..2
    /\ pc = "respond" =>
           /\ requested = current_difficulty(current_difficulty_index)
           /\ puzzle.kind = "puzzle"
           /\ puzzle.difficulty = requested

\* a puzzle requested at Hard right after the session climbed to it
C15_Witness ==
    /\ pc = "respond"
    /\ requested = "Hard"
    /\ puzzle.kind = "puzzle"
    /\ result.transition_occurred
    /\ result.old_difficulty = "Medium"
\* C17: for every update_performance call, transition_occurred is true
\* exactly when new_difficulty differs from old_difficulty, and when it is
\* true the difficulty index differs from its value before the call by
\* exactly one; when it is false the index is the value before the call.
C17_TransitionFlagMatchesLevels ==
    [][/\ result'.transition_occurred <=>
              result'.new_difficulty # result'.old_difficulty
       /\ result'.old_difficulty = current_difficulty(current_difficulty_index)
       /\ result'.new_difficulty = current_difficulty(current_difficulty_index')
       /\ result'.transition_occurred =>
              \/ current_difficulty_index' = current_difficulty_index + 1
              \/ current_difficulty_index' = current_difficulty_index - 1
       /\ ~result'.transition_occurred =>
              current_difficulty_index' = current_difficulty_index]_vars

\* a call that reported the regression from Hard to Medium
C17_Witness ==
    /\ call.made
    /\ result.transition_occurred
    /\ result.old_difficulty = "Hard"
    /\ result.new_difficulty = "Medium"
    /\ current_difficulty_index = 1

\* C18: between calls the stored score never sits past a threshold that
\* could still act: on Easy p_score < 5.0, on Medium -3.0 < p_score < 5.0,
\* on Hard p_score > -3.0.
C18_NoPendingThreshold ==
    /\ current_difficulty(current_difficulty_index) = "Easy" =>
           DecLess(p_score, FromInt(5))
    /\ current_difficulty(current_difficulty_index) = "Medium" =>
           /\ DecLess(FromInt(-3), p_score)
           /\ DecLess(p_score, FromInt(5))
    /\ current_difficulty(current_difficulty_index) = "Hard" =>
           DecLess(FromInt(-3), p_score)

\* a call on Medium that brought the score below -2 without reaching -3
C18_Witness ==
    /\ call.made
    /\ current_difficulty_index = 1
    /\ ~result.transition_occurred
    /\ DecLess(p_score, FromInt(-2))
    /\ DecLess(FromInt(-3), p_score)

\* C19: no two consecutive update_performance calls both fire a transition:
\* the call after a call with transition_occurred = true reports
\* transition_occurred = false for every input, its post-decay score being
\* 1.8, 0.9 or -2.7.
C19_NoConsecutiveTransitions ==
    [][result.transition_occurred =>
           /\ ~result'.transition_occurred
           /\ result'.old_score = FromInt(0)
           /\ p_score' \in {Dec(FALSE, 1, <<8>>), Dec(FALSE, 0, <<9>>),
                            Dec(TRUE, 2, <<7>>)}]_vars

\* the incorrect call made right after the level rose to Medium
C19_Witness ==
    /\ call.made
    /\ ~call.is_correct
    /\ current_difficulty_index = 1
    /\ result.old_score = FromInt(0)
    /\ result.old_difficulty = "Medium"
    /\ ~result.transition_occurred
    /\ p_score = Dec(TRUE, 2, <<7>>)
\* C21: once every outcome is incorrect, the difficulty eventually becomes
\* Easy and then stays Easy, the level never rising on the way, and above
\* Easy no run of incorrect calls is longer than 6 without a regression:
\* the 6th call at the latest fires the transition to the level below.
C21_SustainedFailureFalls ==
    /\ [](pc = "falling" => <>(current_difficulty_index = 0))
    /\ [][pc' = "falling" =>
              /\ current_difficulty_index' <= current_difficulty_index
              /\ current_difficulty_index = 0 => current_difficulty_index' = 0]_vars
    /\ []((pc = "falling" /\ result.old_difficulty # "Easy") =>
              /\ streak <= 6
              /\ streak = 6 =>
                   /\ result.transition_occurred
                   /\ result.new_difficulty # result.old_difficulty
                   /\ current_difficulty(current_difficulty_index)
                          = result.new_difficulty)

\* a regression from Hard has taken 6 consecutive incorrect calls
C21_Witness ==
    /\ pc = "falling"
    /\ streak = 6
    /\ result.transition_occurred
    /\ result.old_difficulty = "Hard"
    /\ current_difficulty_index = 1
====
